---- MODULE Spec2Model ----
(***************************************************************************)
(* PyPSI: need tanks, motivators, motive selection and the agent tick.     *)
(*                                                                         *)
(* Python floats are modelled as fixed-point integers.  A level, a rate,   *)
(* an amount or an accumulated bedarf x is the integer x * LevelOne; a     *)
(* time delta dt is the integer dt * TimeOne.  All rates used are          *)
(* multiples of TimeOne, so rate * dt is exact.                            *)
(***************************************************************************)
EXTENDS Integers, Sequences, FiniteSets, TLC

VARIABLES
    tanks,        \* NeedTankSystem.tanks: need type -> NeedTank (empty: no system built yet)
    motivators,   \* need type -> Motivator (empty: none built yet)
    candidates,   \* the list of Motive objects handed to Motivselektor.select_motive
    selector,     \* the Motivselektor: min_strength_threshold, tie_break_random
    selected,     \* what select_motive returned: None, or <<i>> for the i-th candidate
    island,       \* the Island: width, height and the tiles by position
    position,     \* PSIBot.position
    action_cooldown,      \* PSIBot.action_cooldown
    current_motive,       \* PSIBot.current_motive
    last_action_result,   \* PSIBot.last_action_result
    memory,       \* the SensoryMemory: max_memory_size and memories (empty: none built yet)
    tank_keys,    \* the keys of NeedTankSystem.tanks in the order of the dict
    h,            \* the last call made: its name, arguments, outcome and the state before it
    ops           \* number of calls made so far

vars == <<tanks, motivators, candidates, selector, selected, island, position,
          action_cooldown, current_motive, last_action_result, memory,
          tank_keys, h, ops>>

selVars == <<candidates, selector, selected>>

botVars == <<island, position, action_cooldown, current_motive, last_action_result>>

----------------------------------------------------------------------------
(* Numbers *)

LevelOne == 10000          \* the float 1.0 of a level
TimeOne == 10              \* the float 1.0 of a time delta
FineOne == 2000000000      \* the float 1.0 where differences below 1e-9 matter

MaxOps == 4                \* calls per behaviour

None == <<>>               \* Python None; a present optional value x is <<x>>
Some(x) == <<x>>

Max(a, b) == IF a >= b THEN a ELSE b     \* max(a, b), first argument on a tie
Min(a, b) == IF a <= b THEN a ELSE b     \* min(a, b), first argument on a tie
Abs(a) == IF a < 0 THEN -a ELSE a         \* abs(a)

\* rate * dt for a rate per time unit and a time delta
Mul(rate, dt) == (rate * dt) \div TimeOne

----------------------------------------------------------------------------
(* tanks.py *)

NeedOrder == <<"HUNGER", "THIRST", "ENERGY", "CERTAINTY", "COMPETENCE", "AFFILIATION">>
NeedType == {NeedOrder[i] : i \in 1..Len(NeedOrder)}

\* variant: the same checks without the one on fill_rate
NeedTank_post_init_nofill(t) ==
    IF ~(0 <= t.target_level /\ t.target_level <= LevelOne) THEN "target_level"
    ELSE IF ~(0 <= t.current_level /\ t.current_level <= t.target_level) THEN "current_level"
    ELSE IF t.depletion_rate < 0 THEN "depletion_rate"
    ELSE IF ~(0 <= t.critical_threshold /\ t.critical_threshold <= LevelOne)
         THEN "critical_threshold"
    ELSE "none"

\* NeedTank.__post_init__: "none" when the tank is accepted, else the field
\* whose check raised ValueError (the checks run in this order).
NeedTank_post_init(t) ==
    IF ~(0 <= t.target_level /\ t.target_level <= LevelOne) THEN "target_level"
    ELSE IF ~(0 <= t.current_level /\ t.current_level <= t.target_level) THEN "current_level"
    ELSE IF t.depletion_rate < 0 THEN "depletion_rate"
    ELSE IF t.fill_rate < 0 THEN "fill_rate"
    ELSE IF ~(0 <= t.critical_threshold /\ t.critical_threshold <= LevelOne)
         THEN "critical_threshold"
    ELSE "none"

\* variant: depletion stops at the critical threshold
update_to_threshold(t, dt) ==
    [t EXCEPT !.current_level =
        Max(Min(t.critical_threshold, t.current_level),
            t.current_level - Mul(t.depletion_rate, dt))]

\* variant: update without the clamp at 0.0
update_unclamped(t, dt) ==
    [t EXCEPT !.current_level = t.current_level - Mul(t.depletion_rate, dt)]

\* NeedTank.update(dt)
update(t, dt) ==
    LET depletion == Mul(t.depletion_rate, dt)
    IN  [t EXCEPT !.current_level = Max(0, t.current_level - depletion)]

\* variant: an amount of None fills nothing
satisfy_none_is_zero(t, amount) ==
    LET fill_amount == IF amount # None THEN amount[1] ELSE 0
    IN  [t EXCEPT !.current_level = Min(t.target_level, t.current_level + fill_amount)]

\* NeedTank.satisfy(amount)
satisfy(t, amount) ==
    LET fill_amount == IF amount # None THEN amount[1] ELSE t.fill_rate
    IN  [t EXCEPT !.current_level = Min(t.target_level, t.current_level + fill_amount)]

\* NeedTank.bedarf()
bedarf(t) == t.target_level - t.current_level

\* NeedTank.is_critical()
is_critical(t) == t.current_level < t.critical_threshold

\* NeedTankSystem.DEFAULT_CONFIG: (target, depletion_rate, fill_rate, critical_threshold)
DEFAULT_CONFIG ==
    [n \in NeedType |->
        CASE n = "HUNGER"      -> <<10000, 200, 8000, 1500>>
          [] n = "THIRST"      -> <<10000, 300, 9000, 1000>>
          [] n = "ENERGY"      -> <<10000, 150, 6000, 2000>>
          [] n = "CERTAINTY"   -> <<10000, 50, 3000, 2500>>
          [] n = "COMPETENCE"  -> <<10000, 80, 4000, 2000>>
          [] n = "AFFILIATION" -> <<10000, 100, 5000, 1500>>]

\* NeedTankSystem.__post_init__: an empty tanks dict is filled from DEFAULT_CONFIG,
\* a non-empty one is kept as given.
NeedTankSystem(given) ==
    IF DOMAIN given = {}
    THEN [n \in NeedType |->
            LET config == DEFAULT_CONFIG[n]
            IN  [need_type |-> n,
                 target_level |-> config[1],
                 current_level |-> config[1],
                 depletion_rate |-> config[2],
                 fill_rate |-> config[3],
                 critical_threshold |-> config[4]]]
    ELSE given

\* NeedTankSystem.__post_init__: the order of the keys of the tanks dict, for
\* the keys given in the order `given_keys`
NeedTankSystem_keys(given_keys) == IF given_keys = <<>> THEN NeedOrder ELSE given_keys

\* NeedTank(need_type) with the defaults of the dataclass
NeedTank(n) ==
    [need_type |-> n,
     target_level |-> LevelOne,
     current_level |-> LevelOne,
     depletion_rate |-> LevelOne \div 100,
     fill_rate |-> LevelOne \div 2,
     critical_threshold |-> LevelOne \div 5]

\* NeedTankSystem.update_all(dt)
update_all(tk, dt) == [n \in DOMAIN tk |-> update(tk[n], dt)]

\* variant: the amount goes to every tank
satisfy_need_all(tk, n, amount) == [k \in DOMAIN tk |-> satisfy(tk[k], amount)]

\* NeedTankSystem.satisfy_need(need_type, amount)
satisfy_need(tk, n, amount) == [tk EXCEPT ![n] = satisfy(tk[n], amount)]

\* NeedTankSystem.get_all_bedarfe()
get_all_bedarfe(tk) == [n \in DOMAIN tk |-> bedarf(tk[n])]

\* NeedTankSystem.get_bedarf(need_type)
get_bedarf(tk, n) == bedarf(tk[n])

\* NeedTankSystem.get_critical_needs(): the critical needs in the order of the dict
get_critical_needs(tk, keys) == SelectSeq(keys, LAMBDA n : is_critical(tk[n]))

\* NeedTankSystem.has_critical_needs()
has_critical_needs(tk) == \E n \in DOMAIN tk : is_critical(tk[n])

\* NeedTankSystem.get_most_urgent_need(): max(self.tanks.keys(), key=bedarf),
\* the first key in the order of the dict whose bedarf is the largest
get_most_urgent_need(tk, keys) ==
    LET first == CHOOSE i \in 1..Len(keys) :
                    /\ \A j \in 1..Len(keys) : bedarf(tk[keys[j]]) <= bedarf(tk[keys[i]])
                    /\ \A j \in 1..(i - 1) : bedarf(tk[keys[j]]) < bedarf(tk[keys[i]])
    IN  keys[first]

\* NeedTankSystem.reset_all()
reset_all(tk) == [n \in DOMAIN tk |-> [tk[n] EXCEPT !.current_level = tk[n].target_level]]

----------------------------------------------------------------------------
(* motivators.py: Motivator *)

\* Motivator(need_type, accumulated_bedarf, decay_rate, max_accumulation): a plain
\* dataclass without __post_init__, so every argument is stored as given.
Motivator(n, acc, rate, maxacc) ==
    [need_type |-> n, accumulated_bedarf |-> acc, decay_rate |-> rate,
     max_accumulation |-> maxacc]

DefaultDecayRate == 1000          \* decay_rate: float = 0.1
DefaultMaxAccumulation == 100000  \* max_accumulation: float = 10.0

\* Motivator(need_type=n): the defaults
DefaultMotivator(n) == Motivator(n, 0, DefaultDecayRate, DefaultMaxAccumulation)

\* Motivator.accumulate(bedarf)
accumulate(m, b) ==
    [m EXCEPT !.accumulated_bedarf =
        Min(m.max_accumulation, m.accumulated_bedarf + Max(0, b))]

\* Motivator.decay(dt)
decay(m, dt) ==
    LET decay_amount == Mul(m.decay_rate, dt)
    IN  [m EXCEPT !.accumulated_bedarf = Max(0, m.accumulated_bedarf - decay_amount)]

\* Motivator.reset()
reset(m) == [m EXCEPT !.accumulated_bedarf = 0]

\* variant: decay before accumulate
update_motivators_decay_first(mots, bedarfe, dt) ==
    [n \in DOMAIN mots |->
        IF n \in DOMAIN bedarfe
        THEN accumulate(decay(mots[n], dt), bedarfe[n])
        ELSE decay(mots[n], dt)]

\* update_motivators_from_bedarfe(motivators, bedarfe, dt)
update_motivators_from_bedarfe(mots, bedarfe, dt) ==
    [n \in DOMAIN mots |->
        decay(IF n \in DOMAIN bedarfe THEN accumulate(mots[n], bedarfe[n]) ELSE mots[n],
              dt)]

----------------------------------------------------------------------------
(* motivators.py: activity, Motive, Motivselektor *)

(* math.log1p on fixed-point numbers with `unit` units per 1.0: the floor of   *)
(* unit * ln(1 + x / unit) at the tabulated points, linear in between.  The    *)
(* LevelOne table covers [0, 10.0]; the FineOne table lists the accumulated    *)
(* bedarf values used where strengths less than 1e-9 apart are compared.       *)
(* log1p is defined above -1.0 only; both tables stay inside that domain.      *)
Log1pTable(unit) ==
    IF unit = FineOne
    THEN << <<-10000000, -10025084>>, <<0, 0>>, <<10000000, 9975083>>, <<20100335, 20000000>>,
            <<1000000000, 810930216>>, <<2000000000, 1386294361>>,
            <<2000000002, 1386294362>>, <<2000000008, 1386294365>> >>
    ELSE << <<0, 0>>, <<100, 99>>, <<101, 100>>, <<200, 198>>, <<500, 487>>,
            <<1000, 953>>, <<2000, 1823>>, <<5000, 4054>>, <<10000, 6931>>,
            <<20000, 10986>>, <<50000, 17917>>, <<100000, 23978>> >>

Log1p(x, unit) ==
    LET tab == Log1pTable(unit)
        i == CHOOSE k \in 1..Len(tab) :
                /\ tab[k][1] <= x
                /\ k < Len(tab) => x < tab[k + 1][1]
    IN  IF x = tab[i][1] THEN tab[i][2]
        ELSE tab[i][2]
               + ((x - tab[i][1]) * (tab[i + 1][2] - tab[i][2]))
                    \div (tab[i + 1][1] - tab[i][1])

\* Motivator.get_activity()
get_activity(m, unit) == Log1p(m.accumulated_bedarf, unit)

\* variant: eating serves energy as well as hunger
get_value_for_need_two(goal, n) ==
    CASE goal = "eat"   -> IF n \in {"HUNGER", "ENERGY"} THEN 1 ELSE 0
      [] goal = "drink" -> IF n = "THIRST" THEN 1 ELSE 0
      [] goal = "rest"  -> IF n = "ENERGY" THEN 1 ELSE 0
      [] OTHER          -> 0

\* variant: moving east counts as serving hunger
get_value_for_need_move(goal, n) ==
    CASE goal = "eat"   -> IF n = "HUNGER" THEN 1 ELSE 0
      [] goal = "drink" -> IF n = "THIRST" THEN 1 ELSE 0
      [] goal = "rest"  -> IF n = "ENERGY" THEN 1 ELSE 0
      [] goal = "move_east" -> IF n = "HUNGER" THEN 1 ELSE 0
      [] OTHER          -> 0

\* Action.get_value_for_need and its overrides in EatAction, DrinkAction and
\* RestAction: 1.0 (the integer 1) for the need the action serves, else 0.0
get_value_for_need(goal, n) ==
    CASE goal = "eat"   -> IF n = "HUNGER" THEN 1 ELSE 0
      [] goal = "drink" -> IF n = "THIRST" THEN 1 ELSE 0
      [] goal = "rest"  -> IF n = "ENERGY" THEN 1 ELSE 0
      [] OTHER          -> 0

\* Action.get_expectation(): 1.0 for every action
goal_get_expectation(goal) == 1

\* Motive.get_expectation(): the override, else the goal's, clamped to [0.0, 1.0]
get_expectation(m) ==
    IF m.expectation_override # None
    THEN Max(0, Min(1, m.expectation_override[1]))
    ELSE Max(0, Min(1, goal_get_expectation(m.goal)))

\* variant: the three factors added instead of multiplied
calculate_strength_sum(m, unit) ==
    get_expectation(m) + get_value_for_need(m.goal, m.motivator.need_type)
        + get_activity(m.motivator, unit)

\* Motive.calculate_strength(), in units of 1/unit
calculate_strength(m, unit) ==
    LET expectation == get_expectation(m)
        value == get_value_for_need(m.goal, m.motivator.need_type)
        activity == get_activity(m.motivator, unit)
    IN  expectation * value * activity

TieEpsInv == 1000000000     \* 1 / 1e-9

\* abs(d) < 1e-9 for a difference of d units: d < TieUnits(unit)
TieUnits(unit) == ((unit - 1) \div TieEpsInv) + 1

Indices(seq) == [i \in 1..Len(seq) |-> i]

\* variant: strictly above the threshold
viable_candidates_strict(cands, sel, unit) ==
    SelectSeq(Indices(cands),
              LAMBDA i : calculate_strength(cands[i], unit) > sel.min_strength_threshold)

\* select_motive, lines 291-295: the candidates (by position) at or above the threshold
viable_candidates(cands, sel, unit) ==
    SelectSeq(Indices(cands),
              LAMBDA i : calculate_strength(cands[i], unit) >= sel.min_strength_threshold)

\* select_motive, line 301
max_strength(cands, viable, unit) ==
    LET S == {calculate_strength(cands[viable[k]], unit) : k \in 1..Len(viable)}
    IN  CHOOSE s \in S : \A x \in S : x <= s

\* variant: no comparison with the maximum
best_candidates_all(cands, viable, unit) == viable

\* select_motive, lines 304-307: the viable candidates within 1e-9 of the maximum
best_candidates(cands, viable, unit) ==
    SelectSeq(viable,
              LAMBDA i : Abs(calculate_strength(cands[i], unit)
                               - max_strength(cands, viable, unit)) < TieUnits(unit))

\* variant: any viable candidate, or none, at random
select_motive_any(cands, sel, unit) ==
    LET viable == viable_candidates(cands, sel, unit)
    IN  {None} \cup {Some(viable[k]) : k \in 1..Len(viable)}

\* variant: the last of the tie set instead of the first
select_motive_last(cands, sel, unit) ==
    LET viable == viable_candidates(cands, sel, unit)
        best == best_candidates(cands, viable, unit)
    IN  IF cands = <<>> THEN {None}
        ELSE IF viable = <<>> THEN {None}
        ELSE IF Len(best) = 1 THEN {Some(best[1])}
        ELSE IF sel.tie_break_random THEN {Some(best[k]) : k \in 1..Len(best)}
        ELSE {Some(best[Len(best)])}

\* Motivselektor.select_motive(candidates): the set of values the call can return
select_motive(cands, sel, unit) ==
    LET viable == viable_candidates(cands, sel, unit)
        best == best_candidates(cands, viable, unit)
    IN  IF cands = <<>> THEN {None}
        ELSE IF viable = <<>> THEN {None}
        ELSE IF Len(best) = 1 THEN {Some(best[1])}
        ELSE IF sel.tie_break_random THEN {Some(best[k]) : k \in 1..Len(best)}
        ELSE {Some(best[1])}

\* Motivselektor(min_strength_threshold, tie_break_random)
Motivselektor(threshold, random) ==
    [min_strength_threshold |-> threshold, tie_break_random |-> random]

\* Motive(motivator, goal, expectation_override)
Motive(m, goal, override) ==
    [motivator |-> m, goal |-> goal, expectation_override |-> override]

----------------------------------------------------------------------------
(* Calls on a NeedTank / NeedTankSystem *)

\* constructor arguments tried, in and out of range
TargetGrid == {-5000, 0, 5000, 10000, 15000}
CurrentGrid == {-5000, 0, 5000, 10000, 15000}
DepletionGrid == {-100, 0, 2000}
FillGrid == {-100, 0, 3000}
ThresholdGrid == {-1000, 0, 2500, 10000, 11000}
TankArgs ==
    [target_level : TargetGrid, current_level : CurrentGrid,
     depletion_rate : DepletionGrid, fill_rate : FillGrid,
     critical_threshold : ThresholdGrid]

DtGrid == {0, 10, 25, 2500}               \* dt >= 0
AmountGrid == {None, Some(0), Some(2400)} \* amount None or >= 0
NegAmountGrid == {Some(-3000), Some(-20000)}

NoCall == [op |-> "init", need |-> "", dt |-> 0, amount |-> None, err |-> "none",
           args |-> <<>>, pre |-> <<>>]

\* NeedTankSystem(): the six default tanks
NewDefaultSystem ==
    /\ h.op = "init" /\ ops < MaxOps
    /\ tanks' = NeedTankSystem(<<>>)
    /\ tank_keys' = NeedTankSystem_keys(<<>>)
    /\ h' = [NoCall EXCEPT !.op = "NeedTankSystem"]
    /\ ops' = ops + 1
    /\ UNCHANGED <<memory, motivators, selVars, botVars>>

\* NeedTankSystem(tanks={n: NeedTank(n, ...)}); the NeedTank constructor may raise
NewNeedTank ==
    /\ h.op = "init" /\ ops < MaxOps
    /\ \E n \in {"HUNGER"}, a \in TankArgs :
          LET t == [need_type |-> n,
                    target_level |-> a.target_level,
                    current_level |-> a.current_level,
                    depletion_rate |-> a.depletion_rate,
                    fill_rate |-> a.fill_rate,
                    critical_threshold |-> a.critical_threshold]
              err == NeedTank_post_init(t)
          IN  /\ tanks' = IF err = "none" THEN NeedTankSystem(n :> t) ELSE tanks
              /\ tank_keys' = IF err = "none" THEN NeedTankSystem_keys(<<n>>) ELSE tank_keys
              /\ h' = [NoCall EXCEPT !.op = "NeedTank", !.need = n, !.err = err, !.args = t]
    /\ ops' = ops + 1
    /\ UNCHANGED <<memory, motivators, selVars, botVars>>

\* NeedTankSystem(tanks={a: NeedTank(a), b: NeedTank(b)}): two tanks with the
\* NeedTank defaults, in either order of the dict
NewTwoTankSystem ==
    /\ h.op = "init" /\ ops < MaxOps
    /\ \E a \in {"HUNGER", "THIRST"}, b \in {"HUNGER", "THIRST", "ENERGY"} :
          /\ a # b
          /\ tanks' = NeedTankSystem((a :> NeedTank(a)) @@ (b :> NeedTank(b)))
          /\ tank_keys' = NeedTankSystem_keys(<<a, b>>)
    /\ h' = [NoCall EXCEPT !.op = "NeedTankSystem"]
    /\ ops' = ops + 1
    /\ UNCHANGED <<memory, motivators, selVars, botVars>>

UpdateAll ==
    /\ DOMAIN tanks # {} /\ ops < MaxOps
    /\ \E dt \in DtGrid :
          /\ tanks' = update_all(tanks, dt)
          /\ h' = [NoCall EXCEPT !.op = "update_all", !.dt = dt, !.pre = tanks]
    /\ ops' = ops + 1
    /\ UNCHANGED <<memory, motivators, selVars, botVars, tank_keys>>

SatisfyNeedFrom(amounts) ==
    /\ DOMAIN tanks # {} /\ ops < MaxOps
    /\ \E n \in DOMAIN tanks, amount \in amounts :
          /\ tanks' = satisfy_need(tanks, n, amount)
          /\ h' = [NoCall EXCEPT !.op = "satisfy_need", !.need = n, !.amount = amount,
                                 !.pre = tanks]
    /\ ops' = ops + 1
    /\ UNCHANGED <<memory, motivators, selVars, botVars, tank_keys>>

SatisfyNeed == SatisfyNeedFrom(AmountGrid)
SatisfyNeedNeg == SatisfyNeedFrom(NegAmountGrid)

ResetAll ==
    /\ DOMAIN tanks # {} /\ ops < MaxOps
    /\ tanks' = reset_all(tanks)
    /\ h' = [NoCall EXCEPT !.op = "reset_all", !.pre = tanks]
    /\ ops' = ops + 1
    /\ UNCHANGED <<memory, motivators, selVars, botVars, tank_keys>>

\* the queries get_bedarf, get_all_bedarfe, get_critical_needs,
\* has_critical_needs and get_most_urgent_need, called one after the other;
\* h.args holds what they returned
Query ==
    /\ DOMAIN tanks # {} /\ ops < MaxOps /\ h.op # "query"
    /\ h' = [NoCall EXCEPT !.op = "query", !.pre = tanks,
                           !.args = [get_bedarf |-> [n \in DOMAIN tanks |-> get_bedarf(tanks, n)],
                                     get_all_bedarfe |-> get_all_bedarfe(tanks),
                                     get_critical_needs |-> get_critical_needs(tanks, tank_keys),
                                     has_critical_needs |-> has_critical_needs(tanks),
                                     get_most_urgent_need |->
                                         get_most_urgent_need(tanks, tank_keys)]]
    /\ ops' = ops + 1
    /\ UNCHANGED <<memory, tanks, motivators, selVars, botVars, tank_keys>>

InitTank ==
    /\ tanks = <<>>
    /\ motivators = <<>>
    /\ candidates = <<>>
    /\ selector = <<>>
    /\ selected = None
    /\ island = <<>>
    /\ position = <<>>
    /\ action_cooldown = 0
    /\ current_motive = <<>>
    /\ last_action_result = <<>>
    /\ tank_keys = <<>>
    /\ memory = <<>>
    /\ h = NoCall
    /\ ops = 0

NextTank ==
    \/ NewDefaultSystem \/ NewNeedTank \/ NewTwoTankSystem
    \/ UpdateAll \/ SatisfyNeed \/ ResetAll \/ Query

\* tanks driven with the inputs the contract allows: dt >= 0, amount None or >= 0
SpecTank == InitTank /\ [][NextTank]_vars

NextTankAny == NextTank \/ SatisfyNeedNeg

\* the same, with negative amounts passed to satisfy as well
SpecTankAny == InitTank /\ [][NextTankAny]_vars

----------------------------------------------------------------------------
(* Claims about the tanks *)

InRange(t) ==
    /\ 0 <= t.current_level
    /\ t.current_level <= t.target_level
    /\ t.target_level <= LevelOne

\* C1: every tank of a system built by a successful construction satisfies
\* 0 <= current_level <= target_level <= 1 after any sequence of update (dt >= 0),
\* satisfy (amount None or >= 0) and reset_all.
C1_TankInvariant == \A n \in DOMAIN tanks : InRange(tanks[n])

\* an update whose depletion exceeds the level, which the tank survives at level 0
C1_Witness ==
    /\ h.op = "update_all"
    /\ \E n \in DOMAIN tanks :
          /\ h.pre[n].current_level > 0
          /\ h.pre[n].current_level - Mul(h.pre[n].depletion_rate, h.dt) < 0
          /\ tanks[n].current_level = 0

\* C2: satisfy never decreases current_level and never raises it above
\* target_level, whatever the amount (a negative amount has no effect).
C2_SatisfyMonotone ==
    h.op = "satisfy_need" =>
        /\ tanks[h.need].current_level >= h.pre[h.need].current_level
        /\ tanks[h.need].current_level <= tanks[h.need].target_level

FiveConditions(a) ==
    /\ 0 <= a.target_level /\ a.target_level <= LevelOne
    /\ 0 <= a.current_level /\ a.current_level <= a.target_level
    /\ a.depletion_rate >= 0
    /\ a.fill_rate >= 0
    /\ 0 <= a.critical_threshold /\ a.critical_threshold <= LevelOne

\* C4: constructing a NeedTank raises, and creates no tank, exactly when one of
\* the five range conditions is violated; otherwise the tank exists as given.
C4_ConstructionValidated ==
    h.op = "NeedTank" =>
        /\ (h.err = "none") <=> FiveConditions(h.args)
        /\ h.err = "none" => (DOMAIN tanks = {h.need} /\ tanks[h.need] = h.args)
        /\ h.err # "none" => DOMAIN tanks = {}

\* a construction refused because of fill_rate alone
C4_Witness ==
    /\ h.op = "NeedTank"
    /\ h.err = "fill_rate"
    /\ h.args.fill_rate < 0
    /\ FiveConditions([h.args EXCEPT !.fill_rate = 0])
    /\ DOMAIN tanks = {}

\* C16: update(dt) with dt >= 0 sets current_level to
\* max(0, previous current_level - depletion_rate*dt) and changes no other
\* field, and update(0) leaves the tank unchanged, for every tank
C16_UpdateFormula ==
    h.op = "update_all" =>
        \A n \in DOMAIN tanks :
            /\ tanks[n] = [h.pre[n] EXCEPT !.current_level =
                              Max(0, h.pre[n].current_level
                                       - Mul(h.pre[n].depletion_rate, h.dt))]
            /\ h.dt = 0 => tanks[n] = h.pre[n]

\* C17: satisfy(amount) sets current_level to
\* min(target_level, previous current_level + amount), with the tank's
\* fill_rate for an amount of None, and changes no other field
C17_SatisfyFormula ==
    h.op = "satisfy_need" =>
        LET pre == h.pre[h.need]
            filled == IF h.amount = None THEN pre.fill_rate ELSE h.amount[1]
        IN  tanks[h.need] = [pre EXCEPT !.current_level =
                                Min(pre.target_level, pre.current_level + filled)]

\* satisfy(None) on a tank that its fill_rate leaves below target_level
C17_Witness ==
    /\ h.op = "satisfy_need" /\ h.amount = None
    /\ h.pre[h.need].fill_rate > 0
    /\ tanks[h.need].current_level = h.pre[h.need].current_level + h.pre[h.need].fill_rate
    /\ tanks[h.need].current_level < tanks[h.need].target_level

\* the orders in which a dict with some of the six keys can be visited
RECURSIVE Perms(_)
Perms(S) ==
    IF S = {} THEN {<<>>}
    ELSE UNION {{<<x>> \o q : q \in Perms(S \ {x})} : x \in S}

AllOrders == Perms(NeedType)

\* update(dt) applied to one tank after the other, in the order given
RECURSIVE update_in_order(_, _, _)
update_in_order(tk, order, dt) ==
    IF order = <<>> THEN tk
    ELSE update_in_order([tk EXCEPT ![Head(order)] = update(@, dt)], Tail(order), dt)

\* C19: tanks do not interact: satisfy_need(n, amount) changes the
\* current_level of tank n only; update_all(dt) gives, in whatever order the
\* tanks are visited, the tanks each updated on its own; the queries change no tank
C19_TanksIndependent ==
    /\ h.op = "satisfy_need" =>
          /\ \A n \in DOMAIN tanks \ {h.need} : tanks[n] = h.pre[n]
          /\ tanks[h.need] = [h.pre[h.need] EXCEPT !.current_level =
                                  tanks[h.need].current_level]
    /\ h.op = "update_all" =>
          /\ \A n \in DOMAIN tanks : tanks[n] = update(h.pre[n], h.dt)
          /\ \A order \in AllOrders :
                tanks = update_in_order(h.pre,
                                        SelectSeq(order, LAMBDA n : n \in DOMAIN h.pre),
                                        h.dt)
    /\ h.op = "query" => tanks = h.pre

\* a satisfy_need that raised one tank of a system whose tanks differ, and
\* left the others below their targets
C19_Witness ==
    /\ h.op = "satisfy_need"
    /\ tanks[h.need].current_level > h.pre[h.need].current_level
    /\ \E n \in DOMAIN tanks \ {h.need} :
          tanks[n].current_level < tanks[n].target_level

\* the position of a need type in the NeedType enum
Ordinal(n) == CHOOSE i \in 1..Len(NeedOrder) : NeedOrder[i] = n

\* C14: get_most_urgent_need returns a need type whose bedarf is maximal over
\* the tanks of the system, and among the need types with that maximal bedarf
\* the one with the lowest enum ordinal, for every system that can be constructed
C14_MostUrgentLowestOrdinal ==
    h.op = "query" =>
        LET urgent == h.args.get_most_urgent_need
        IN  /\ urgent \in DOMAIN tanks
            /\ \A n \in DOMAIN tanks :
                  /\ bedarf(tanks[n]) <= bedarf(tanks[urgent])
                  /\ bedarf(tanks[n]) = bedarf(tanks[urgent]) => Ordinal(urgent) <= Ordinal(n)

\* C15: every NeedTankSystem holds one tank for each of the six need types,
\* under the key equal to the tank's need_type, from construction onwards
C15_SixTanks ==
    DOMAIN tanks # {} =>
        /\ DOMAIN tanks = NeedType
        /\ \A n \in DOMAIN tanks : tanks[n].need_type = n

----------------------------------------------------------------------------
(* Calls on a Motivator *)

AccGrid == {-5000, 0, 5000, 100000, 150000}
DecayRateGrid == {-1000, 0, 1000}
MaxAccGrid == {5000, 100000}
BedarfGrid == {-3000, 0, 4000, 200000}

\* Motivator(n, acc, rate, maxacc) with arguments in and out of range
NewMotivator ==
    /\ h.op = "init" /\ ops < MaxOps
    /\ \E n \in {"HUNGER"}, acc \in AccGrid, rate \in DecayRateGrid, maxacc \in MaxAccGrid :
          LET m == Motivator(n, acc, rate, maxacc)
          IN  /\ motivators' = (n :> m)
              /\ h' = [NoCall EXCEPT !.op = "Motivator", !.need = n, !.args = m]
    /\ ops' = ops + 1
    /\ UNCHANGED <<memory, tanks, selVars, botVars, tank_keys>>

Accumulate ==
    /\ DOMAIN motivators # {} /\ ops < MaxOps
    /\ \E n \in DOMAIN motivators, b \in BedarfGrid :
          /\ motivators' = [motivators EXCEPT ![n] = accumulate(@, b)]
          /\ h' = [h EXCEPT !.op = "accumulate", !.need = n, !.amount = Some(b),
                            !.pre = motivators]
    /\ ops' = ops + 1
    /\ UNCHANGED <<memory, tanks, selVars, botVars, tank_keys>>

Decay ==
    /\ DOMAIN motivators # {} /\ ops < MaxOps
    /\ \E n \in DOMAIN motivators, dt \in DtGrid :
          /\ motivators' = [motivators EXCEPT ![n] = decay(@, dt)]
          /\ h' = [h EXCEPT !.op = "decay", !.need = n, !.dt = dt, !.pre = motivators]
    /\ ops' = ops + 1
    /\ UNCHANGED <<memory, tanks, selVars, botVars, tank_keys>>

Reset ==
    /\ DOMAIN motivators # {} /\ ops < MaxOps
    /\ \E n \in DOMAIN motivators :
          /\ motivators' = [motivators EXCEPT ![n] = reset(@)]
          /\ h' = [h EXCEPT !.op = "reset", !.need = n, !.pre = motivators]
    /\ ops' = ops + 1
    /\ UNCHANGED <<memory, tanks, selVars, botVars, tank_keys>>

\* update_motivators_from_bedarfe(motivators, bedarfe, dt) with a bedarfe dict
\* that has the motivator's need type or lacks it; h.amount is the bedarf found
UpdateMotivatorsFromBedarfe ==
    /\ DOMAIN motivators # {} /\ ops < MaxOps
    /\ \E keys \in {{}, {"HUNGER"}, {"THIRST"}}, b \in BedarfGrid, dt \in DtGrid :
          LET bedarfe == [k \in keys |-> b]
          IN  /\ motivators' = update_motivators_from_bedarfe(motivators, bedarfe, dt)
              /\ h' = [h EXCEPT !.op = "update_motivators_from_bedarfe", !.dt = dt,
                                !.amount = IF h.need \in keys THEN Some(b) ELSE None,
                                !.pre = motivators]
    /\ ops' = ops + 1
    /\ UNCHANGED <<memory, tanks, selVars, botVars, tank_keys>>

NextMot == NewMotivator \/ Accumulate \/ Decay \/ Reset \/ UpdateMotivatorsFromBedarfe

\* one motivator, built with any arguments, then driven by its three methods;
\* h.args keeps the motivator as it was constructed
SpecMot == InitTank /\ [][NextMot]_vars

----------------------------------------------------------------------------
(* Claims about the motivators *)

MotivatorArgsInRange(m) ==
    /\ 0 <= m.accumulated_bedarf
    /\ m.accumulated_bedarf <= m.max_accumulation
    /\ m.decay_rate >= 0

\* C3: a Motivator with accumulated_bedarf < 0, accumulated_bedarf >
\* max_accumulation or decay_rate < 0 is refused: no such object exists.
C3_MotivatorValidated ==
    (h.op = "Motivator" /\ ~MotivatorArgsInRange(h.args)) => DOMAIN motivators = {}

\* C5: a motivator that started with accumulated_bedarf in [0, max_accumulation]
\* keeps it there under accumulate (any bedarf), decay (dt >= 0) and reset.
C5_AccumulationBounded ==
    \A n \in DOMAIN motivators :
        (0 <= h.args.accumulated_bedarf
            /\ h.args.accumulated_bedarf <= h.args.max_accumulation)
        => (0 <= motivators[n].accumulated_bedarf
            /\ motivators[n].accumulated_bedarf <= motivators[n].max_accumulation)

C18_AccumulateFormula ==
    h.op = "accumulate" =>
        LET pre == h.pre[h.need]
            acc == motivators[h.need].accumulated_bedarf
        IN  /\ acc = Min(pre.max_accumulation,
                         pre.accumulated_bedarf + Max(0, h.amount[1]))
            /\ h.amount[1] < 0 => acc = pre.accumulated_bedarf
            /\ pre.accumulated_bedarf = pre.max_accumulation => acc = pre.max_accumulation

----------------------------------------------------------------------------
(* Calls on a Motivselektor, in units of 1/FineOne *)

MaxCands == 3              \* candidates per list

\* the motives offered: strengths 0 (no drive, expectation 0, no value), below,
\* at and above the threshold 0.01, three strengths around ln 2 that are
\* 5e-10, 2e-9 and 0 apart, and a negative one (accumulated_bedarf -0.005)
MotivePool ==
    LET M(n, acc) == Motivator(n, acc, 0, FineOne + 8)
    IN  { Motive(M("HUNGER", 0), "eat", None),
          Motive(M("HUNGER", 10000000), "eat", None),
          Motive(M("HUNGER", 20100335), "eat", None),
          Motive(M("HUNGER", 2000000000), "eat", None),
          Motive(M("THIRST", 2000000002), "drink", None),
          Motive(M("THIRST", 2000000008), "drink", Some(2)),
          Motive(M("THIRST", 2000000008), "drink", Some(-1)),
          Motive(M("THIRST", 2000000008), "eat", None),
          Motive(M("HUNGER", 2000000000), "eat", Some(1)),
          Motive(M("HUNGER", -10000000), "eat", None) }

SelThreshold == 20000000   \* min_strength_threshold: float = 0.01

\* Motivselektor(...): the default threshold 0.01, 0 or -0.01, either tie-break
NewSelector ==
    /\ h.op = "init" /\ ops < MaxOps + MaxCands
    /\ \E threshold \in {-SelThreshold, 0, SelThreshold}, random \in BOOLEAN :
          selector' = Motivselektor(threshold, random)
    /\ h' = [NoCall EXCEPT !.op = "Motivselektor"]
    /\ ops' = ops + 1
    /\ UNCHANGED <<memory, tanks, motivators, candidates, selected, botVars, tank_keys>>

\* the caller extends the candidate list
Offer ==
    /\ DOMAIN selector # {} /\ h.op \in {"Motivselektor", "append"}
    /\ Len(candidates) < MaxCands
    /\ \E m \in MotivePool : candidates' = Append(candidates, m)
    /\ h' = [NoCall EXCEPT !.op = "append"]
    /\ ops' = ops + 1
    /\ UNCHANGED <<memory, tanks, motivators, selector, selected, botVars, tank_keys>>

\* selector.select_motive(candidates); h.pre is what the previous call on this
\* list returned, h.args the strengths the call computed
SelectMotive ==
    /\ DOMAIN selector # {} /\ ops < MaxOps + MaxCands
    /\ \E r \in select_motive(candidates, selector, FineOne) : selected' = r
    /\ h' = [NoCall EXCEPT !.op = "select_motive",
                           !.args = [i \in 1..Len(candidates) |->
                                        calculate_strength(candidates[i], FineOne)],
                           !.pre = IF h.op = "select_motive" THEN Some(selected) ELSE None]
    /\ ops' = ops + 1
    /\ UNCHANGED <<memory, tanks, motivators, candidates, selector, botVars, tank_keys>>

NextSel == NewSelector \/ Offer \/ SelectMotive

SpecSel == InitTank /\ [][NextSel]_vars

----------------------------------------------------------------------------
(* Claims about the selector *)

\* the strengths the last select_motive computed, and what it kept
Strengths == h.args
ViableSet == {i \in DOMAIN Strengths : Strengths[i] >= selector.min_strength_threshold}
Returned == h.op = "select_motive" /\ selected # None
TopStrength == CHOOSE s \in {Strengths[i] : i \in ViableSet} :
                  \A i \in ViableSet : Strengths[i] <= s

\* C6 as stated: whenever select_motive returns a motive, no supplied candidate
\* has a strictly greater strength than the returned one
C6_ReturnsStrongest ==
    Returned => \A i \in DOMAIN Strengths : Strengths[i] <= Strengths[selected[1]]

\* C6 amended: whenever select_motive returns a motive, no supplied candidate's
\* strength exceeds the returned motive's strength by 1e-9 or more
C6_ReturnsStrongestUpToTie ==
    Returned => \A i \in DOMAIN Strengths :
                    Strengths[i] - Strengths[selected[1]] < TieUnits(FineOne)

\* a weaker viable candidate is listed first and a stronger one is returned
C6_Witness ==
    /\ Returned
    /\ selected[1] > 1
    /\ 1 \in ViableSet
    /\ Strengths[selected[1]] - Strengths[1] >= TieUnits(FineOne)

C7_WitnessNone ==
    h.op = "select_motive" /\ selected = None /\ Len(candidates) >= 2

\* the first-listed viable candidate within 1e-9 of the maximum
FirstOfTie ==
    CHOOSE i \in ViableSet :
        /\ TopStrength - Strengths[i] < TieUnits(FineOne)
        /\ \A j \in ViableSet :
              TopStrength - Strengths[j] < TieUnits(FineOne) => i <= j

\* C8: with tie_break_random = false select_motive returns the first-listed of
\* the viable candidates within 1e-9 of the maximum, and a repeated call on the
\* same list returns the same motive
C8_FirstOfTieReturned ==
    (Returned /\ ~selector.tie_break_random) =>
        /\ selected[1] = FirstOfTie
        /\ h.pre # None => h.pre[1] = selected

\* a repeated call on a list where two candidates tie and neither is listed first
C8_Witness ==
    /\ Returned /\ ~selector.tie_break_random
    /\ h.pre # None
    /\ selected[1] > 1
    /\ \E j \in ViableSet :
          j > selected[1] /\ TopStrength - Strengths[j] < TieUnits(FineOne)

----------------------------------------------------------------------------
(* environment/island.py *)

\* Tile(x, y, terrain, resource, resource_amount); the position is the key
\* under which the island holds the tile
Tile(terrain, resource, amount) ==
    [terrain |-> terrain, resource |-> resource, resource_amount |-> amount,
     occupied_by |-> None]

\* Tile.is_passable()
is_passable(tile) == tile.terrain \notin {"WATER", "MOUNTAIN"}

\* Tile.has_resource()
has_resource(tile) == tile.resource # "NONE" /\ tile.resource_amount > 0

\* variant: consuming the amount asked for, whatever is left
consume_resource_asked(tile, amount) ==
    IF ~has_resource(tile) THEN [tile |-> tile, consumed |-> 0]
    ELSE LET left == tile.resource_amount - amount
         IN  [tile |-> [tile EXCEPT !.resource_amount = left,
                                    !.resource = IF left <= 0 THEN "NONE" ELSE @],
              consumed |-> amount]

\* Tile.consume_resource(amount): the tile afterwards and the amount consumed
consume_resource(tile, amount) ==
    IF ~has_resource(tile) THEN [tile |-> tile, consumed |-> 0]
    ELSE LET consumed == Min(tile.resource_amount, amount)
             left == tile.resource_amount - consumed
         IN  [tile |-> [tile EXCEPT !.resource_amount = left,
                                    !.resource = IF left <= 0 THEN "NONE" ELSE @],
              consumed |-> consumed]

\* GridPos(x, y) and GridPos.__add__
GridPos(x, y) == <<x, y>>
PosAdd(a, b) == <<a[1] + b[1], a[2] + b[2]>>

\* Direction.to_pos()
to_pos(direction) ==
    CASE direction = "NORTH" -> GridPos(0, -1)
      [] direction = "NORTHEAST" -> GridPos(1, -1)
      [] direction = "EAST"  -> GridPos(1, 0)
      [] direction = "SOUTHEAST" -> GridPos(1, 1)
      [] direction = "SOUTH" -> GridPos(0, 1)
      [] direction = "SOUTHWEST" -> GridPos(-1, 1)
      [] direction = "WEST"  -> GridPos(-1, 0)
      [] direction = "NORTHWEST" -> GridPos(-1, -1)

\* list(Direction): the members in the order of their definition
Directions ==
    <<"NORTH", "NORTHEAST", "EAST", "SOUTHEAST", "SOUTH", "SOUTHWEST", "WEST", "NORTHWEST">>

\* Island(width, height, tiles)
Island(width, height, tiles) == [width |-> width, height |-> height, tiles |-> tiles]

\* Island.get_tile(pos): None when pos is out of bounds
get_tile(isl, pos) ==
    IF 0 <= pos[1] /\ pos[1] < isl.width /\ 0 <= pos[2] /\ pos[2] < isl.height
    THEN Some(isl.tiles[pos])
    ELSE None

\* Island.is_valid_position(pos)
is_valid_position(isl, pos) ==
    LET tile == get_tile(isl, pos)
    IN  tile # None /\ is_passable(tile[1]) /\ tile[1].occupied_by = None

\* variant: occupying without looking at the occupant
occupy_tile_over(isl, pos, agent_id) ==
    LET tile == get_tile(isl, pos)
    IN  IF tile # None /\ is_passable(tile[1])
        THEN [island |-> [isl EXCEPT !.tiles[pos].occupied_by = Some(agent_id)],
              ok |-> TRUE]
        ELSE [island |-> isl, ok |-> FALSE]

\* Island.occupy_tile(pos, agent_id): the island afterwards and the value returned
occupy_tile(isl, pos, agent_id) ==
    LET tile == get_tile(isl, pos)
    IN  IF tile # None /\ tile[1].occupied_by = None /\ is_passable(tile[1])
        THEN [island |-> [isl EXCEPT !.tiles[pos].occupied_by = Some(agent_id)],
              ok |-> TRUE]
        ELSE [island |-> isl, ok |-> FALSE]

\* Island.vacate_tile(pos)
vacate_tile(isl, pos) ==
    IF get_tile(isl, pos) # None
    THEN [isl EXCEPT !.tiles[pos].occupied_by = None]
    ELSE isl

\* Island.move_agent(from_pos, to_pos, agent_id)
move_agent(isl, from_pos, dest_pos, agent_id) ==
    IF ~is_valid_position(isl, dest_pos)
    THEN [island |-> isl, ok |-> FALSE]
    ELSE occupy_tile(vacate_tile(isl, from_pos), dest_pos, agent_id)

----------------------------------------------------------------------------
(* perception/system.py *)

\* PerceptionSystem._check_movement_possibilities
check_movement_possibilities(isl, agent_position) ==
    [direction \in {"NORTH", "SOUTH", "EAST", "WEST"} |->
        is_valid_position(isl, PosAdd(agent_position, to_pos(direction)))]

\* PerceptionSystem.perceive(island, agent_position), for a position on the
\* island; the fields the actions read
perceive(isl, agent_position) ==
    LET current_tile == get_tile(isl, agent_position)[1]
        can_move == check_movement_possibilities(isl, agent_position)
    IN  [position |-> agent_position,
         terrain |-> current_tile.terrain,
         can_move_north |-> can_move["NORTH"],
         can_move_south |-> can_move["SOUTH"],
         can_move_east |-> can_move["EAST"],
         can_move_west |-> can_move["WEST"],
         current_resource |-> current_tile.resource,
         resource_amount |-> current_tile.resource_amount]

\* a slice seq[start:] of a Python list
SliceFrom(seq, start) ==
    LET from == IF start < 0 THEN Max(Len(seq) + start, 0) ELSE Min(start, Len(seq))
    IN  SubSeq(seq, from + 1, Len(seq))

\* SensoryMemory(max_memory_size)
SensoryMemory(max_memory_size) == [max_memory_size |-> max_memory_size, memories |-> <<>>]

\* SensoryMemory.add_percept(percept, timestamp)
add_percept(mem, percept, timestamp) ==
    LET appended == Append(mem.memories, <<timestamp, percept>>)
    IN  [mem EXCEPT !.memories =
            IF Len(appended) > mem.max_memory_size
            THEN SliceFrom(appended, -mem.max_memory_size)
            ELSE appended]

----------------------------------------------------------------------------
(* action/schemas.py *)

\* ActionLibrary._add_default_actions: the actions in the order of the dict
ActionNames ==
    <<"move_north", "move_south", "move_east", "move_west",
      "eat", "drink", "rest", "explore">>

\* MoveAction.direction
direction_of(name) ==
    CASE name = "move_north" -> "NORTH"
      [] name = "move_south" -> "SOUTH"
      [] name = "move_east"  -> "EAST"
      [] name = "move_west"  -> "WEST"

\* Action.check_preconditions of each action
check_preconditions(name, isl, pos, percept, need_system) ==
    CASE name = "move_north" -> percept.can_move_north
      [] name = "move_south" -> percept.can_move_south
      [] name = "move_east"  -> percept.can_move_east
      [] name = "move_west"  -> percept.can_move_west
      [] name = "eat"   -> percept.current_resource = "FOOD" /\ percept.resource_amount > 0
      [] name = "drink" -> percept.current_resource = "WATER" /\ percept.resource_amount > 0
      [] name = "rest"  -> percept.current_resource = "SHELTER" /\ percept.resource_amount > 0
      [] name = "explore" -> \/ percept.can_move_north \/ percept.can_move_south
                             \/ percept.can_move_east \/ percept.can_move_west

\* f"{satisfaction:.2f}": the amount in hundredths
Round2(x) == (x + (LevelOne \div 200)) \div (LevelOne \div 100)

\* ActionOutcome(result, message, needs_satisfied, new_position), together with
\* the island and the need system as the action left them
Executed(isl, need_system, result, message, needs_satisfied, new_position) ==
    [island |-> isl, need_system |-> need_system,
     outcome |-> [result |-> result, message |-> message,
                  needs_satisfied |-> needs_satisfied, new_position |-> new_position]]

\* MoveAction.execute
MoveAction_execute(name, isl, pos, need_system) ==
    LET new_pos == PosAdd(pos, to_pos(direction_of(name)))
        moved == move_agent(isl, pos, new_pos, "agent")
    IN  IF moved.ok
        THEN Executed(moved.island, need_system, "SUCCESS",
                      <<"Moved", direction_of(name)>>, <<>>, Some(new_pos))
        ELSE Executed(moved.island, need_system, "FAILURE",
                      <<"Failed to move", direction_of(name)>>, <<>>, None)

\* EatAction.execute and DrinkAction.execute: consume `request` of the
\* resource, satisfy the need by `tenths`/10 of what was consumed
ConsumeAction_execute(isl, pos, need_system, resource, request, tenths, need, done, failed) ==
    LET tile == get_tile(isl, pos)
    IN  IF tile # None /\ tile[1].resource = resource /\ tile[1].resource_amount > 0
        THEN LET eaten == consume_resource(tile[1], request)
                 satisfaction == (eaten.consumed * tenths) \div 10
             IN  Executed([isl EXCEPT !.tiles[pos] = eaten.tile],
                          satisfy_need(need_system, need, Some(satisfaction)),
                          "SUCCESS", <<done, Round2(satisfaction)>>,
                          (need :> satisfaction), None)
        ELSE Executed(isl, need_system, "FAILURE", <<failed>>, <<>>, None)

\* variant: resting without looking for a shelter
RestAction_execute_anywhere(isl, pos, need_system) ==
    Executed(isl, satisfy_need(need_system, "ENERGY", Some((3 * LevelOne) \div 10)),
             "SUCCESS", <<"Rested (recovered energy by", 30>>,
             ("ENERGY" :> (3 * LevelOne) \div 10), None)

\* RestAction.execute
RestAction_execute(isl, pos, need_system) ==
    LET tile == get_tile(isl, pos)
        satisfaction == (3 * LevelOne) \div 10
    IN  IF tile # None /\ tile[1].resource = "SHELTER" /\ tile[1].resource_amount > 0
        THEN Executed(isl, satisfy_need(need_system, "ENERGY", Some(satisfaction)),
                      "SUCCESS", <<"Rested (recovered energy by", Round2(satisfaction)>>,
                      ("ENERGY" :> satisfaction), None)
        ELSE Executed(isl, need_system, "FAILURE", <<"No shelter to rest in">>, <<>>, None)

\* ExploreAction.execute: list(Direction)[:4], the first four members, in any
\* order (random.shuffle); the first valid one is taken
ExploreAction_execute(isl, pos, need_system) ==
    LET directions == {Directions[k] : k \in 1..4}
        valid == {d \in directions : is_valid_position(isl, PosAdd(pos, to_pos(d)))}
    IN  IF valid = {}
        THEN {Executed(isl, need_system, "FAILURE",
                       <<"No valid direction to explore">>, <<>>, None)}
        ELSE {Executed(move_agent(isl, pos, PosAdd(pos, to_pos(d)), "agent").island,
                       need_system, "SUCCESS", <<"Explored", d>>, <<>>,
                       Some(PosAdd(pos, to_pos(d)))) : d \in valid}

\* Action.execute(island, position, need_system): the possible results
execute(name, isl, pos, need_system) ==
    CASE name = "eat" ->
           {ConsumeAction_execute(isl, pos, need_system, "FOOD", (3 * LevelOne) \div 10, 8,
                                  "HUNGER", "Ate food (satisfied hunger by", "No food to eat")}
      [] name = "drink" ->
           {ConsumeAction_execute(isl, pos, need_system, "WATER", (4 * LevelOne) \div 10, 9,
                                  "THIRST", "Drank water (satisfied thirst by",
                                  "No water to drink")}
      [] name = "rest" -> {RestAction_execute(isl, pos, need_system)}
      [] name = "explore" -> ExploreAction_execute(isl, pos, need_system)
      [] OTHER -> {MoveAction_execute(name, isl, pos, need_system)}

\* ActionLibrary.get_executable_actions
get_executable_actions(isl, pos, percept, need_system) ==
    SelectSeq(ActionNames,
              LAMBDA name : check_preconditions(name, isl, pos, percept, need_system))

----------------------------------------------------------------------------
(* examples/simple_island.py: PSIBot *)

IdleCooldown == 5          \* self.action_cooldown = 0.5
ActionCooldown == 3        \* self.action_cooldown = 0.3

\* PSIBot(start_pos) on the island it is placed in
PSIBot(start_pos, isl) ==
    [position |-> start_pos,
     need_system |-> NeedTankSystem(<<>>),
     motivators |-> [n \in NeedType |-> DefaultMotivator(n)],
     motive_selector |-> Motivselektor(LevelOne \div 100, FALSE),
     current_motive |-> None,
     action_cooldown |-> 0,
     last_action_result |-> <<>>,
     island |-> isl]

\* update, line 77: all tanks deplete
update_needs(bot, dt) == [bot EXCEPT !.need_system = update_all(@, dt)]

\* update, lines 79-82: every motivator accumulates the deficit read from the
\* tanks as they are now, then decays
update_motivators(bot, dt) ==
    LET bedarfe == get_all_bedarfe(bot.need_system)
    IN  [bot EXCEPT !.motivators =
            [n \in DOMAIN @ |-> decay(accumulate(@[n], bedarfe[n]), dt)]]

\* update, lines 101-110: one motive per executable action and need it has a
\* positive value for
motives_for(action, mots) ==
    LET needs == SelectSeq(NeedOrder, LAMBDA n : get_value_for_need(action, n) > 0)
    IN  [k \in 1..Len(needs) |-> Motive(mots[needs[k]], action, None)]

RECURSIVE build_motives(_, _)
build_motives(actions, mots) ==
    IF actions = <<>> THEN <<>>
    ELSE motives_for(Head(actions), mots) \o build_motives(Tail(actions), mots)

\* variant: the bot applies the outcome's needs_satisfied to the tanks again
execute_selected_twice(bot, motive) ==
    {LET again[k \in 0..Len(NeedOrder)] ==
             IF k = 0 THEN done.need_system
             ELSE IF NeedOrder[k] \in DOMAIN done.outcome.needs_satisfied
                  THEN satisfy_need(again[k - 1], NeedOrder[k],
                                    Some(done.outcome.needs_satisfied[NeedOrder[k]]))
                  ELSE again[k - 1]
     IN  [bot EXCEPT
            !.current_motive = Some([need_type |-> motive.motivator.need_type,
                                     goal |-> motive.goal]),
            !.need_system = again[Len(NeedOrder)],
            !.last_action_result = done.outcome.message,
            !.island = done.island,
            !.action_cooldown = ActionCooldown]
     : done \in execute(motive.goal, bot.island, bot.position, bot.need_system)}

\* update, lines 120-129: the selected motive's action is executed
execute_selected(bot, motive) ==
    {LET moved == done.outcome.new_position # None
     IN  [bot EXCEPT
            !.current_motive = Some([need_type |-> motive.motivator.need_type,
                                     goal |-> motive.goal]),
            !.need_system = done.need_system,
            !.last_action_result = done.outcome.message,
            !.island = IF moved THEN vacate_tile(done.island, bot.position)
                       ELSE done.island,
            !.position = IF moved THEN done.outcome.new_position[1] ELSE @,
            !.action_cooldown = ActionCooldown]
     : done \in execute(motive.goal, bot.island, bot.position, bot.need_system)}

\* update, lines 84-129: the cooldown, then perception, candidate motives,
\* selection and execution; the set of possible results
update_action(bot, dt) ==
    IF bot.action_cooldown > 0
    THEN {[bot EXCEPT !.action_cooldown = @ - dt]}
    ELSE
      LET percept == perceive(bot.island, bot.position)
          executable_actions ==
              get_executable_actions(bot.island, bot.position, percept, bot.need_system)
          motives == build_motives(executable_actions, bot.motivators)
          idle(message) == [bot EXCEPT !.last_action_result = <<message>>,
                                       !.action_cooldown = IdleCooldown]
      IN  IF executable_actions = <<>>
          THEN {idle("No executable actions")}
          ELSE UNION {
                 IF r = None
                 THEN {[idle("No motive selected") EXCEPT !.current_motive = None]}
                 ELSE execute_selected(bot, motives[r[1]])
                 : r \in select_motive(motives, bot.motive_selector, LevelOne)}

\* the three parts of update in another order: the action first
PSIBot_update_action_first(bot, dt) ==
    {update_motivators(b, dt) : b \in update_action(update_needs(bot, dt), dt)}

\* the three parts of update in another order: the motivators first
PSIBot_update_motivators_first(bot, dt) ==
    update_action(update_needs(update_motivators(bot, dt), dt), dt)

\* variant: the action part runs whatever the cooldown is
PSIBot_update_no_cooldown(bot, dt) ==
    update_action([update_motivators(update_needs(bot, dt), dt) EXCEPT !.action_cooldown = 0], dt)

\* PSIBot.update(island, dt, elapsed)
PSIBot_update(bot, dt) ==
    update_action(update_motivators(update_needs(bot, dt), dt), dt)

----------------------------------------------------------------------------
(* The demo: an island, a PSIBot on it, and its ticks *)

MaxTicks == 8              \* ticks per behaviour

IslandWidth == 2
IslandHeight == 1
StartPos == GridPos(0, 0)

\* the time deltas of a tick: 0.3, 1.0 and 5.0
TickDtGrid == {3, 10, 50}

\* the tile the agent starts on
StartTiles ==
    {Tile("GRASS", "NONE", 0)}
    \cup {Tile("GRASS", r, a) : r \in {"FOOD", "WATER"}, a \in {(4 * LevelOne) \div 10, LevelOne}}
    \cup {Tile("SAND", "SHELTER", LevelOne)}

\* the bot and its island as one value
Bot ==
    [position |-> position, need_system |-> tanks, motivators |-> motivators,
     motive_selector |-> selector, current_motive |-> current_motive,
     action_cooldown |-> action_cooldown, last_action_result |-> last_action_result,
     island |-> island]

SetBot(bot) ==
    /\ position' = bot.position
    /\ tanks' = bot.need_system
    /\ motivators' = bot.motivators
    /\ selector' = bot.motive_selector
    /\ current_motive' = bot.current_motive
    /\ action_cooldown' = bot.action_cooldown
    /\ last_action_result' = bot.last_action_result
    /\ island' = bot.island

\* SimpleIslandDemo.__init__: the island, the bot at its start position, and
\* island.occupy_tile(start_pos, "agent")
NewDemo ==
    /\ h.op = "init"
    /\ \E start \in StartTiles, east \in {"GRASS", "WATER"} :
          LET isl == Island(IslandWidth, IslandHeight,
                            (GridPos(0, 0) :> start) @@ (GridPos(1, 0) :> Tile(east, "NONE", 0)))
          IN  SetBot(PSIBot(StartPos, occupy_tile(isl, StartPos, "agent").island))
    /\ h' = [NoCall EXCEPT !.op = "PSIBot"]
    /\ tank_keys' = NeedOrder
    /\ UNCHANGED <<memory, candidates, selected, ops>>

\* self.agent.update(self.island, dt, self.elapsed); h.pre is the bot before
Update ==
    /\ DOMAIN island # {} /\ ops < MaxTicks
    /\ \E dt \in TickDtGrid :
          /\ \E bot \in PSIBot_update(Bot, dt) : SetBot(bot)
          /\ h' = [NoCall EXCEPT !.op = "update", !.dt = dt, !.pre = Bot]
    /\ ops' = ops + 1
    /\ UNCHANGED <<memory, candidates, selected, tank_keys>>

NextTick == NewDemo \/ Update

\* time deltas below and above the cooldown of 0.3: 0.1, 0.2 and 1.0
ShortDtGrid == {1, 2, 10}

\* the dt of the skipped ticks since the last executed action, None while no
\* action was executed: its value after a tick from `bot` to `after`
skipped_after(since, bot, after, dt) ==
    IF bot.action_cooldown > 0
    THEN IF since = None THEN None ELSE Some(since[1] + dt)
    ELSE IF after.action_cooldown = ActionCooldown THEN Some(0) ELSE since

\* self.agent.update(self.island, dt, self.elapsed) with the short time deltas;
\* h.args keeps the dt skipped since the last executed action, before and
\* after this tick
UpdateShort ==
    /\ DOMAIN island # {} /\ ops < MaxTicks
    /\ \E dt \in ShortDtGrid :
          \E bot \in PSIBot_update(Bot, dt) :
             LET since == IF h.op = "update" THEN h.args.skipped ELSE None
             IN  /\ SetBot(bot)
                 /\ h' = [NoCall EXCEPT !.op = "update", !.dt = dt, !.pre = Bot,
                                        !.args = [since |-> since,
                                                  skipped |-> skipped_after(since, Bot, bot, dt)]]
    /\ ops' = ops + 1
    /\ UNCHANGED <<memory, candidates, selected, tank_keys>>

NextCool == NewDemo \/ UpdateShort

SpecCool == InitTank /\ [][NextCool]_vars

\* tiles with a resource type but nothing of it left
EmptyTiles == {Tile("GRASS", r, 0) : r \in {"FOOD", "WATER"}} \cup {Tile("SAND", "SHELTER", 0)}

\* an island built tile by tile, with a bot on it, as NewDemo but with the
\* tiles of EmptyTiles as well
NewWorld ==
    /\ h.op = "init"
    /\ \E start \in StartTiles \cup EmptyTiles :
          LET isl == Island(IslandWidth, IslandHeight,
                            (GridPos(0, 0) :> start) @@ (GridPos(1, 0) :> Tile("WATER", "NONE", 0)))
          IN  SetBot(PSIBot(StartPos, occupy_tile(isl, StartPos, "agent").island))
    /\ tank_keys' = NeedOrder
    /\ h' = [NoCall EXCEPT !.op = "PSIBot"]
    /\ UNCHANGED <<memory, candidates, selected, ops>>

\* action.execute(island, position, need_system) called directly for the eat,
\* drink or rest action of the library; h.need is the action, h.args the outcome
ExecuteAction ==
    /\ DOMAIN island # {} /\ ops < MaxOps
    /\ \E name \in {"eat", "drink", "rest"} :
          \E done \in execute(name, island, position, tanks) :
             /\ island' = done.island
             /\ tanks' = done.need_system
             /\ h' = [NoCall EXCEPT !.op = "execute", !.need = name,
                                    !.args = done.outcome, !.pre = Bot]
    /\ ops' = ops + 1
    /\ UNCHANGED <<memory, motivators, selVars, position, action_cooldown, current_motive,
                   last_action_result, tank_keys>>

NextAct == NewWorld \/ Update \/ ExecuteAction

\* the tick loop, with direct executions of actions in between
SpecAct == InitTank /\ [][NextAct]_vars

SpecTick == InitTank /\ [][NextTick]_vars

----------------------------------------------------------------------------
(* Claims about the tick *)

\* the tanks of the bot before the tick, depleted by the tick's time delta
Depleted == update_all(h.pre.need_system, h.dt)

\* the tick went past the cooldown and executed the selected action
ActedInTick ==
    h.op = "update" /\ h.pre.action_cooldown <= 0 /\ action_cooldown = ActionCooldown

\* C10: in every tick all tanks deplete first; every motivator accumulates the
\* deficit read after that depletion and then decays; the action is selected
\* from the motivators so updated, and its satisfaction is applied to the
\* depleted tanks afterwards, so that it has no part in the deficit accumulated
\* in the same tick
C10_TickOrder ==
    h.op = "update" =>
        /\ \A n \in NeedType :
              motivators[n] =
                  decay(accumulate(h.pre.motivators[n], bedarf(Depleted[n])), h.dt)
        /\ \A n \in NeedType :
              \/ tanks[n] = Depleted[n]
              \/ /\ ActedInTick /\ current_motive # None
                 /\ current_motive[1].need_type = n
                 /\ tanks[n].current_level > Depleted[n].current_level
        /\ (ActedInTick /\ current_motive # None) =>
              calculate_strength(Motive(motivators[current_motive[1].need_type],
                                        current_motive[1].goal, None), LevelOne)
                  >= selector.min_strength_threshold

\* a tick that executed an action, raised the tank of a need above its
\* depleted level, and in which that need's motivator accumulated a deficit
\* that the satisfied tank no longer has
C10_Witness ==
    /\ ActedInTick
    /\ \E n \in NeedType :
          /\ tanks[n].current_level > Depleted[n].current_level
          /\ motivators[n].accumulated_bedarf > h.pre.motivators[n].accumulated_bedarf
          /\ bedarf(tanks[n]) < bedarf(Depleted[n])

\* the possible results of executing the goal of the tick's motive on the
\* island as it was and on the depleted tanks
ExecutedInTick ==
    execute(current_motive[1].goal, h.pre.island, h.pre.position, Depleted)

\* C12: the goal of the selected motive is the only goal executed in a tick
\* (the island is as that one execution left it), and when it succeeds every
\* need n of the outcome's needs_satisfied ends the tick at
\* min(target_level, level before execution + needs_satisfied[n]) and every
\* other tank at its level before execution: the amount is applied once
C12_SatisfactionAppliedOnce ==
    (ActedInTick /\ current_motive # None) =>
        \E done \in ExecutedInTick :
            /\ last_action_result = done.outcome.message
            /\ done.outcome.new_position = None => (island = done.island
                                                    /\ position = h.pre.position)
            /\ done.outcome.result = "SUCCESS" =>
                  \A n \in NeedType :
                      tanks[n] =
                        IF n \in DOMAIN done.outcome.needs_satisfied
                        THEN [Depleted[n] EXCEPT !.current_level =
                                 Min(Depleted[n].target_level,
                                     Depleted[n].current_level
                                        + done.outcome.needs_satisfied[n])]
                        ELSE Depleted[n]

\* a tick whose action succeeded and raised a tank to a level below its target
C12_Witness ==
    /\ ActedInTick /\ current_motive # None
    /\ \E done \in ExecutedInTick :
          /\ done.outcome.result = "SUCCESS"
          /\ \E n \in DOMAIN done.outcome.needs_satisfied :
                /\ done.outcome.needs_satisfied[n] > 0
                /\ tanks[n].current_level > Depleted[n].current_level
                /\ tanks[n].current_level < tanks[n].target_level

\* C13: with tie_break_random = false a tick has one possible result for a
\* given state and dt, so two runs that start in the same state and receive
\* the same dt sequence are in the same state after every tick
C13_TickDeterministic ==
    (DOMAIN island # {} /\ ~selector.tie_break_random) =>
        \A dt \in TickDtGrid : Cardinality(PSIBot_update(Bot, dt)) = 1

\* a state, itself the result of a tick, whose next tick selects and executes
\* an action
C13_Witness ==
    /\ h.op = "update" /\ action_cooldown <= 0
    /\ ~selector.tie_break_random
    /\ \E dt \in TickDtGrid :
          /\ Cardinality(PSIBot_update(Bot, dt)) = 1
          /\ \A b \in PSIBot_update(Bot, dt) :
                b.action_cooldown = ActionCooldown /\ b.island # island

----------------------------------------------------------------------------
(* Claims about outcomes without an action *)

\* the resource an action consumes or uses
ResourceOf(name) ==
    CASE name = "eat" -> "FOOD" [] name = "drink" -> "WATER" [] name = "rest" -> "SHELTER"

\* the tile the bot stood on when the last call was made
TileBefore == get_tile(h.pre.island, h.pre.position)[1]

\* the last call was a tick that went past the cooldown and ended without an
\* action: nothing executable, or no motive selected
IdleTick ==
    /\ h.op = "update" /\ h.pre.action_cooldown <= 0
    /\ action_cooldown = IdleCooldown
    /\ last_action_result \in {<<"No executable actions">>, <<"No motive selected">>}

\* C20: eat, drink and rest executed on a tile without the matching resource,
\* or with nothing of it left, return FAILURE with empty needs_satisfied and
\* change neither the island nor a tank; a tick without an executable action
\* or without a selected motive changes neither the position nor a tile, and
\* every tick has a result
C20_NoActionOutcomes ==
    /\ h.op = "execute" =>
          ((TileBefore.resource # ResourceOf(h.need) \/ TileBefore.resource_amount = 0)
             => /\ h.args.result = "FAILURE"
                /\ h.args.needs_satisfied = <<>>
                /\ h.args.new_position = None
                /\ island = h.pre.island
                /\ tanks = h.pre.need_system)
    /\ IdleTick => (position = h.pre.position /\ island = h.pre.island)
    /\ (h.op = "update" /\ h.pre.action_cooldown <= 0 /\ action_cooldown # ActionCooldown)
          => IdleTick
    /\ DOMAIN island # {} => \A dt \in TickDtGrid : PSIBot_update(Bot, dt) # {}

\* eat executed on a food tile with nothing left, after a tick
C20_Witness ==
    /\ h.op = "execute" /\ h.need = "eat"
    /\ TileBefore.resource = "FOOD" /\ TileBefore.resource_amount = 0
    /\ h.args.result = "FAILURE"
    /\ \E n \in NeedType : tanks[n].current_level < tanks[n].target_level

\* a tick that found nothing executable, and one that selected no motive
C20_WitnessNothingExecutable ==
    IdleTick /\ last_action_result = <<"No executable actions">>

C20_WitnessNoMotive ==
    IdleTick /\ last_action_result = <<"No motive selected">> /\ current_motive = None

----------------------------------------------------------------------------
(* Calls on an Island and its tiles *)

IslWidth == 3
IslAgents == {"agent_1", "agent_2"}

\* positions of the calls: the three tiles of the row and one off each end
IslPositions == {GridPos(x, 0) : x \in -1 .. IslWidth}

\* amounts asked of consume_resource: 0, 0.3, 0.5 and 2.0
ConsumeGrid == {0, (3 * LevelOne) \div 10, LevelOne \div 2, 2 * LevelOne}

\* an island of one row: a tile with or without food, a free tile and water
NewIsland ==
    /\ h.op = "init"
    /\ \E first \in {Tile("GRASS", "NONE", 0), Tile("GRASS", "FOOD", 0),
                     Tile("GRASS", "FOOD", LevelOne \div 2), Tile("GRASS", "FOOD", LevelOne)} :
          island' = Island(IslWidth, 1,
                           (GridPos(0, 0) :> first) @@ (GridPos(1, 0) :> Tile("SAND", "NONE", 0))
                           @@ (GridPos(2, 0) :> Tile("WATER", "NONE", 0)))
    /\ h' = [NoCall EXCEPT !.op = "Island"]
    /\ UNCHANGED <<memory, tanks, motivators, selVars, position, action_cooldown, current_motive,
                   last_action_result, tank_keys, ops>>

\* the rest of an island call: the record of the call, one more call made
IslandCall(op, args) ==
    /\ h' = [NoCall EXCEPT !.op = op, !.args = args, !.pre = island]
    /\ ops' = ops + 1
    /\ UNCHANGED <<memory, tanks, motivators, selVars, position, action_cooldown, current_motive,
                   last_action_result, tank_keys>>

\* island.occupy_tile(pos, agent_id)
OccupyTile ==
    /\ DOMAIN island # {} /\ ops < MaxOps
    /\ \E pos \in IslPositions, agent_id \in IslAgents :
          LET done == occupy_tile(island, pos, agent_id)
          IN  /\ island' = done.island
              /\ IslandCall("occupy_tile", [pos |-> pos, agent_id |-> agent_id, ok |-> done.ok])

\* island.vacate_tile(pos)
VacateTile ==
    /\ DOMAIN island # {} /\ ops < MaxOps
    /\ \E pos \in IslPositions :
          /\ island' = vacate_tile(island, pos)
          /\ IslandCall("vacate_tile", [pos |-> pos])

\* island.move_agent(from_pos, to_pos, agent_id)
MoveAgent ==
    /\ DOMAIN island # {} /\ ops < MaxOps
    /\ \E from_pos \in IslPositions, dest_pos \in IslPositions, agent_id \in IslAgents :
          LET done == move_agent(island, from_pos, dest_pos, agent_id)
          IN  /\ island' = done.island
              /\ IslandCall("move_agent", [from_pos |-> from_pos, to_pos |-> dest_pos,
                                           agent_id |-> agent_id, ok |-> done.ok])

\* island.get_tile(pos).consume_resource(amount)
ConsumeResource ==
    /\ DOMAIN island # {} /\ ops < MaxOps
    /\ \E pos \in IslPositions, amount \in ConsumeGrid :
          /\ get_tile(island, pos) # None
          /\ LET done == consume_resource(island.tiles[pos], amount)
             IN  /\ island' = [island EXCEPT !.tiles[pos] = done.tile]
                 /\ IslandCall("consume_resource",
                               [pos |-> pos, amount |-> amount, consumed |-> done.consumed])

NextIsl == NewIsland \/ OccupyTile \/ VacateTile \/ MoveAgent \/ ConsumeResource

SpecIsl == InitTank /\ [][NextIsl]_vars

----------------------------------------------------------------------------
(* Claims about the island *)

\* who stands on each tile
Occupancy(isl) == [pos \in DOMAIN isl.tiles |-> isl.tiles[pos].occupied_by]

InBounds(isl, pos) == get_tile(isl, pos) # None

\* C21: move_agent(from, to, id) either returns True, and then the from tile
\* has no occupant and the to tile is occupied by id, or returns False, the
\* target being out of bounds, impassable or occupied, and then the occupancy
\* of every tile is as before
C21_MoveAgentAllOrNothing ==
    h.op = "move_agent" =>
       IF h.args.ok
       THEN /\ InBounds(island, h.args.from_pos)
                  => island.tiles[h.args.from_pos].occupied_by = None
            /\ island.tiles[h.args.to_pos].occupied_by = Some(h.args.agent_id)
       ELSE /\ ~is_valid_position(h.pre, h.args.to_pos)
            /\ Occupancy(island) = Occupancy(h.pre)

\* C22: occupy_tile returns True only on a tile in bounds, passable and without
\* an occupant; on an occupied tile it returns False and the island stays as
\* it is; the occupant of a tile changes only to none, by vacate_tile of the
\* tile or by a successful move_agent away from it
C22_OccupyOnlyFree ==
    /\ h.op = "occupy_tile" =>
          /\ h.args.ok => /\ is_valid_position(h.pre, h.args.pos)
                          /\ island.tiles[h.args.pos].occupied_by = Some(h.args.agent_id)
          /\ (InBounds(h.pre, h.args.pos) /\ h.pre.tiles[h.args.pos].occupied_by # None)
                => (~h.args.ok /\ island = h.pre)
    /\ h.op \in {"occupy_tile", "vacate_tile", "move_agent", "consume_resource"} =>
          \A pos \in DOMAIN island.tiles :
             (h.pre.tiles[pos].occupied_by # None
                /\ island.tiles[pos].occupied_by # h.pre.tiles[pos].occupied_by)
             => /\ island.tiles[pos].occupied_by = None
                /\ \/ h.op = "vacate_tile" /\ h.args.pos = pos
                   \/ h.op = "move_agent" /\ h.args.ok /\ h.args.from_pos = pos

\* occupy_tile for one agent on the tile another agent stands on
C22_Witness ==
    /\ h.op = "occupy_tile" /\ InBounds(h.pre, h.args.pos)
    /\ h.pre.tiles[h.args.pos].occupied_by \notin {None, Some(h.args.agent_id)}
    /\ ~h.args.ok

\* the tiles an agent id stands on
TilesOf(isl, agent_id) == {pos \in DOMAIN isl.tiles : isl.tiles[pos].occupied_by = Some(agent_id)}

\* C27: an agent id stands on at most one tile, and move_agent leaves the
\* occupant of every tile held by another id in place
C27_OneTilePerAgent ==
    /\ DOMAIN island # {} => \A agent_id \in IslAgents : Cardinality(TilesOf(island, agent_id)) <= 1
    /\ h.op = "move_agent" =>
          \A pos \in DOMAIN island.tiles :
             h.pre.tiles[pos].occupied_by \notin {None, Some(h.args.agent_id)}
                => island.tiles[pos].occupied_by = h.pre.tiles[pos].occupied_by

C23_WitnessEmptied ==
    /\ h.op = "consume_resource" /\ h.args.amount > 0 /\ h.args.consumed = 0
    /\ h.pre.tiles[h.args.pos].resource = "NONE"
    /\ h.pre.tiles[h.args.pos].terrain = "GRASS" /\ ops >= 2

----------------------------------------------------------------------------
(* Calls on a SensoryMemory *)

\* the sizes a memory is built with, and the percepts added (a percept stands
\* for itself: add_percept does not look into it)
MemorySizes == 0 .. 3
PerceptGrid == {"p1", "p2", "p3"}

\* SensoryMemory(max_memory_size=size)
NewSensoryMemory ==
    /\ h.op = "init"
    /\ \E size \in MemorySizes : memory' = SensoryMemory(size)
    /\ h' = [NoCall EXCEPT !.op = "SensoryMemory"]
    /\ UNCHANGED <<tanks, motivators, selVars, botVars, tank_keys, ops>>

\* memory.add_percept(percept, timestamp) with the number of the call as the
\* timestamp; h.args is the list of everything added so far
AddPercept ==
    /\ memory # <<>> /\ ops < MaxOps
    /\ \E percept \in PerceptGrid :
          /\ memory' = add_percept(memory, percept, ops)
          /\ h' = [NoCall EXCEPT !.op = "add_percept", !.pre = memory,
                                 !.args = Append(h.args, <<ops, percept>>)]
    /\ ops' = ops + 1
    /\ UNCHANGED <<tanks, motivators, selVars, botVars, tank_keys>>

NextMem == NewSensoryMemory \/ AddPercept

SpecMem == InitTank /\ [][NextMem]_vars

\* C24: after any add_percept calls the memory holds at most max_memory_size
\* percepts, the most recently added ones in the order they were added, for
\* every max_memory_size >= 0
C24_MemoryBounded ==
    h.op = "add_percept" =>
       /\ Len(memory.memories) <= memory.max_memory_size
       /\ memory.memories =
             SubSeq(h.args, Len(h.args) - Len(memory.memories) + 1, Len(h.args))
       /\ Len(memory.memories) = Min(Len(h.args), memory.max_memory_size)

----------------------------------------------------------------------------
(* Claims about the agent loop *)

\* the actions executable for the bot as it was before the last tick, once its
\* tanks were depleted by the tick
ExecutableBefore ==
    get_executable_actions(h.pre.island, h.pre.position,
                           perceive(h.pre.island, h.pre.position), tanks)

\* C25: in the tick loop the agent never moves: the motives are built from eat,
\* drink and rest only, and after any number of ticks the position and the
\* occupancy of the island are those of the start
C25_AgentNeverMoves ==
    DOMAIN island # {} =>
       /\ position = StartPos
       /\ Occupancy(island) =
             [pos \in DOMAIN island.tiles |-> IF pos = StartPos THEN Some("agent") ELSE None]
       /\ current_motive # None
             => current_motive[1].goal \in {"eat", "drink", "rest"}
       /\ \A name \in {"move_north", "move_south", "move_east", "move_west", "explore"} :
             \A n \in NeedType : get_value_for_need(name, n) = 0

\* a tick past the cooldown in which moving east was executable
C25_Witness ==
    /\ h.op = "update" /\ h.pre.action_cooldown <= 0
    /\ \E k \in 1..Len(ExecutableBefore) : ExecutableBefore[k] = "move_east"
    /\ position = StartPos

\* the candidate motives a tick builds for the bot as it is
MotivesNow ==
    build_motives(get_executable_actions(island, position, perceive(island, position), tanks),
                  motivators)

\* C26: the candidate motives built in a tick are at most one: at most one of
\* eat, drink and rest is executable where the agent stands, and each of them
\* has a positive value for exactly one need type
C26_AtMostOneMotive ==
    DOMAIN island # {} =>
       /\ Len(MotivesNow) <= 1
       /\ Cardinality({name \in {"eat", "drink", "rest"} :
                          check_preconditions(name, island, position,
                                              perceive(island, position), tanks)}) <= 1
       /\ \A name \in {"eat", "drink", "rest"} :
             Cardinality({n \in NeedType : get_value_for_need(name, n) > 0}) = 1

\* a tick that built one motive and executed its action
C26_Witness ==
    /\ h.op = "update" /\ h.pre.action_cooldown <= 0
    /\ action_cooldown = ActionCooldown /\ current_motive # None
    /\ Len(build_motives(ExecutableBefore, motivators)) = 1

\* C28: a tick that starts with action_cooldown > 0 takes no percept, selects
\* no motive and executes no action: the cooldown decreases by dt and nothing
\* else of the bot and the island changes but the tanks, which deplete, and the
\* motivators, which accumulate and decay; between an executed action and the
\* next one the dt of the skipped ticks sums to at least 0.3
C28_CooldownRespected ==
    h.op = "update" =>
       /\ h.pre.action_cooldown > 0 =>
             /\ action_cooldown = h.pre.action_cooldown - h.dt
             /\ island = h.pre.island /\ position = h.pre.position
             /\ current_motive = h.pre.current_motive
             /\ last_action_result = h.pre.last_action_result
             /\ selector = h.pre.motive_selector
             /\ tanks = Depleted
             /\ motivators = update_motivators(update_needs(h.pre, h.dt), h.dt).motivators
       /\ (ActedInTick /\ h.args.since # None) => h.args.since[1] >= ActionCooldown

\* an action executed after an earlier one and more than one skipped tick
C28_Witness ==
    /\ ActedInTick /\ h.args.since # None
    /\ h.args.since[1] < 2 * ActionCooldown
    /\ h.pre.action_cooldown < 0
    /\ \E n \in NeedType : tanks[n].current_level < tanks[n].target_level

\* a skipped tick that left some of the cooldown
C28_WitnessSkipped ==
    /\ h.op = "update" /\ h.pre.action_cooldown > 0 /\ action_cooldown > 0
    /\ h.args.since # None
    /\ tanks # h.pre.need_system /\ motivators # h.pre.motivators

----------------------------------------------------------------------------
(* Calls on the actions of the library *)

GridWidth == 3
Centre == GridPos(1, 1)

\* the neighbours of the centre that are water on some islands
WaterGrid == {GridPos(1, 0), GridPos(2, 0), GridPos(2, 1), GridPos(2, 2), GridPos(1, 2),
              GridPos(0, 1)}

\* an island of three by three tiles, the agent in its centre, full tanks
NewGrid ==
    /\ h.op = "init"
    /\ \E centre \in {Tile("GRASS", "NONE", 0), Tile("GRASS", "FOOD", LevelOne),
                      Tile("GRASS", "WATER", (4 * LevelOne) \div 10),
                      Tile("SAND", "SHELTER", LevelOne)},
          water \in SUBSET WaterGrid :
          LET tiles == [pos \in {GridPos(x, y) : x \in 0 .. GridWidth - 1, y \in 0 .. GridWidth - 1} |->
                           IF pos = Centre THEN centre
                           ELSE IF pos \in water THEN Tile("WATER", "NONE", 0)
                           ELSE Tile("GRASS", "NONE", 0)]
          IN  island' = occupy_tile(Island(GridWidth, GridWidth, tiles), Centre, "agent").island
    /\ position' = Centre
    /\ tanks' = NeedTankSystem(<<>>)
    /\ tank_keys' = NeedOrder
    /\ h' = [NoCall EXCEPT !.op = "Island"]
    /\ UNCHANGED <<memory, motivators, selVars, action_cooldown, current_motive,
                   last_action_result, ops>>

\* percept = perceive(island, position), action.check_preconditions(island,
\* position, percept, need_system) and action.execute(island, position,
\* need_system) for an action of the library; the caller takes the new position
\* as PSIBot.update does
ExecuteChecked ==
    /\ DOMAIN island # {} /\ ops < MaxOps
    /\ \E k \in 1..Len(ActionNames) :
          \E done \in execute(ActionNames[k], island, position, tanks) :
             LET moved == done.outcome.new_position # None
                 percept == perceive(island, position)
             IN  /\ island' = IF moved THEN vacate_tile(done.island, position) ELSE done.island
                 /\ position' = IF moved THEN done.outcome.new_position[1] ELSE position
                 /\ tanks' = done.need_system
                 /\ h' = [NoCall EXCEPT
                            !.op = "execute", !.need = ActionNames[k], !.pre = Bot,
                            !.args = [precondition |->
                                          check_preconditions(ActionNames[k], island, position,
                                                              percept, tanks),
                                      outcome |-> done.outcome]]
    /\ ops' = ops + 1
    /\ UNCHANGED <<memory, motivators, selVars, action_cooldown, current_motive,
                   last_action_result, tank_keys>>

NextPre == NewGrid \/ ExecuteChecked

SpecPre == InitTank /\ [][NextPre]_vars

\* C29: an action whose check_preconditions is true on the percept of the
\* island as it is returns SUCCESS when executed there: a move with the new
\* position one step in its direction, eat, drink and rest with a non-empty
\* needs_satisfied
C29_PreconditionMeansSuccess ==
    (h.op = "execute" /\ h.args.precondition) =>
       /\ h.args.outcome.result = "SUCCESS"
       /\ h.need \in {"move_north", "move_south", "move_east", "move_west"} =>
             h.args.outcome.new_position
                = Some(PosAdd(h.pre.position, to_pos(direction_of(h.need))))
       /\ h.need \in {"eat", "drink", "rest"} => h.args.outcome.needs_satisfied # <<>>

\* the same for the actions of the library other than explore
C29_ButExplore ==
    (h.op = "execute" /\ h.need # "explore") => C29_PreconditionMeansSuccess

----------------------------------------------------------------------------
(* Repeated updates of a NeedTankSystem with a fixed dt *)

\* the fixed time deltas: 0.3, 1.0 and 5.0
FixedDtGrid == {3, 10, 50}

\* NeedTankSystem(tanks={...}): the default tanks, the HUNGER tank with its
\* default depletion rate or with 0.0, the THIRST tank with its default
\* critical threshold or with 0.0, the ENERGY tank full or half full; h.dt is
\* the dt of the updates to come
NewDrainingSystem ==
    /\ h.op = "init"
    /\ \E rate \in {0, DEFAULT_CONFIG["HUNGER"][2]},
          threshold \in {0, DEFAULT_CONFIG["THIRST"][4]},
          level \in {LevelOne \div 2, LevelOne},
          dt \in FixedDtGrid :
          /\ tanks' = [NeedTankSystem(<<>>) EXCEPT !["HUNGER"].depletion_rate = rate,
                                                   !["THIRST"].critical_threshold = threshold,
                                                   !["ENERGY"].current_level = level]
          /\ h' = [NoCall EXCEPT !.op = "NeedTankSystem", !.dt = dt]
    /\ tank_keys' = NeedOrder
    /\ UNCHANGED <<memory, motivators, selVars, botVars, ops>>

\* system.update_all(dt) with the fixed dt, nothing else in between
UpdateFixed ==
    /\ tanks # <<>>
    /\ tanks' = update_all(tanks, h.dt)
    /\ h' = [h EXCEPT !.op = "update_all", !.pre = tanks]
    /\ UNCHANGED <<memory, motivators, selVars, botVars, tank_keys, ops>>

NextDrain == NewDrainingSystem \/ UpdateFixed

\* the updates are repeated: an update that changes a level is taken eventually
SpecDrain == InitTank /\ [][NextDrain]_vars /\ WF_vars(UpdateFixed)

\* the tank of need n is empty: level 0, bedarf the target level, critical when
\* its threshold is positive
Drained(n) ==
    /\ tanks[n].current_level = 0
    /\ bedarf(tanks[n]) = tanks[n].target_level
    /\ tanks[n].critical_threshold > 0 => is_critical(tanks[n])

====
